---- MODULE Spec2Model ----
(***************************************************************************)
(* Model of the GKE tool server (src/server.py): the nine tool handlers    *)
(* registered on the FastMCP instance `mcp`, the credential bootstrap      *)
(* get_k8s_client, and the signal-driven shutdown of the run-loop in       *)
(* main().                                                                 *)
(*                                                                         *)
(* Three specifications share the variables:                               *)
(*   Spec      one tool invocation at a time, each handler run to its end  *)
(*   ConcSpec  list_namespaces / get_pods invocations running on several   *)
(*             threads of control, statement by statement                  *)
(*   LoopSpec  main(), the event loop's tasks and shutdown(loop)           *)
(***************************************************************************)
EXTENDS Integers, Sequences, FiniteSets, TLC

VARIABLES
    registry,       \* tool names registered on `mcp`
    env,            \* os.environ: GOOGLE_CLOUD_PROJECT / GOOGLE_CLOUD_LOCATION
    kubeconfig,     \* current-context of the kubeconfig file gcloud writes
    defaultConfig,  \* kubernetes client's process-wide default Configuration
    last,           \* the most recent invocation handled under Spec
    inv,            \* ConcSpec: the invocations in flight, one per slot
    task,           \* LoopSpec: state of each task of the event loop
    cancelReq,      \* LoopSpec: tasks shutdown(loop) called cancel() on
    mainpc,         \* LoopSpec: where main() is
    loopClosed,     \* LoopSpec: loop.close() has run
    signals         \* LoopSpec: termination signals received so far

vars == <<registry, env, kubeconfig, defaultConfig, last, inv,
          task, cancelReq, mainpc, loopClosed, signals>>

toolVars == <<registry, env, kubeconfig, defaultConfig, last, inv>>
loopVars == <<task, cancelReq, mainpc, loopClosed, signals>>

-----------------------------------------------------------------------------
(* Bounds of the model *)

MaxEntries == 3     \* log entries the provider holds for a query
MaxLimit == 2       \* largest explicit `limit` passed to query_logs
MaxReplicas == 3    \* largest explicit `replicas` passed to giq_generate_manifest
MaxInv == 2         \* invocations in flight at once under ConcSpec
MaxTasks == 3       \* tasks of the event loop under LoopSpec
MaxSignals == 2     \* termination signals delivered under LoopSpec

(* Program constants *)

DefaultLimit == 10
DefaultReplicas == 1
ContainerPort == 8080

-----------------------------------------------------------------------------
(* Python values *)

PyNone == "<None>"

\* f"{v}" : None formats as the text None, a str as itself
Fmt(v) == IF v = PyNone THEN "None" ELSE v

NoExc == [type |-> "None", args |-> <<>>]

Raise(type, args) == [type |-> type, args |-> args]

\* The classes an `except <clause>` catches among the exceptions modelled.
\* Every one of them derives from Exception.
Subclasses(clause) ==
    CASE clause = "Exception" ->
            {"Exception", "GoogleAPICallError", "DefaultCredentialsError",
             "CalledProcessError", "FileNotFoundError", "TypeError",
             "UnicodeDecodeError", "ConfigException", "ApiException"}
      [] clause = "CalledProcessError" -> {"CalledProcessError"}
      [] OTHER -> {clause}

Catches(clause, e) == e.type \in Subclasses(clause)

\* str(e): CalledProcessError and UnicodeDecodeError build their own text;
\* every other class prints its single argument, and nothing when it has none.
ExcStr(e) ==
    CASE e.type = "CalledProcessError" ->
            "Command '['gcloud', 'container', 'clusters', 'get-credentials', ...]' returned non-zero exit status 1."
      [] e.type = "UnicodeDecodeError" ->
            "'utf-8' codec can't decode byte 0xff in position 0: invalid start byte"
      [] OTHER -> IF e.args = <<>> THEN "" ELSE e.args[1]

-----------------------------------------------------------------------------
(* Inputs *)

Clusters == {"A", "B"}
Namespaces == {"default", "kube-system"}
ModelNames == {"resnet50", "bert"}
Queries == {"severity>=ERROR", ""}
Recommenders == {"google.container.DiagnosisRecommender"}
LogTypes == {"k8s_event_logs", "k8s_audit_logs", "k8s_application_logs",
             "k8s_node_logs", ""}
Environments ==
    { [project |-> "my-project", location |-> "us-central1"],
      [project |-> PyNone, location |-> PyNone] }

\* What a provider SDK call can raise: with and without a message.
ProviderExceptions ==
    { Raise("GoogleAPICallError", <<"403 permission denied">>),
      Raise("Exception", <<>>) }

\* Outcome of building the SDK client and making the call.
ProviderOutcomes ==
    { [at |-> "none", exc |-> NoExc] }
    \cup { [at |-> "call", exc |-> e] : e \in ProviderExceptions }
    \cup { [at |-> "ctor", exc |-> Raise("DefaultCredentialsError",
                                        <<"could not find default credentials">>)] }

-----------------------------------------------------------------------------
(* Helpers *)

get_project_id == env.project

get_location == env.location

Log(level, by) == [level |-> level, by |-> by]

\* One call that left the process: what was called, on what, and whether it
\* came back without raising.
ExtCall(op, target, ok) == [op |-> op, target |-> target, ok |-> ok]

\* The record of one handled invocation.
Returned(name, args, ret, calls, log) ==
    [name |-> name, args |-> args, handler |-> name, kind |-> "return",
     ret |-> ret, exc |-> NoExc, calls |-> calls, log |-> log]

Raised(name, args, e, calls, log) ==
    [name |-> name, args |-> args, handler |-> name, kind |-> "raise",
     ret |-> [none |-> TRUE], exc |-> e, calls |-> calls, log |-> log]

NoCall ==
    [name |-> "", args |-> [none |-> TRUE], handler |-> "none", kind |-> "none",
     ret |-> [none |-> TRUE], exc |-> NoExc, calls |-> <<>>, log |-> <<>>]

\* Variant: the except clause names the provider's error class only.
ExceptException_narrow(name, args, e, calls, log) ==
    IF Catches("GoogleAPICallError", e)
    THEN Returned(name, args, [error |-> ExcStr(e)], calls,
                  Append(log, Log("error", name)))
    ELSE Raised(name, args, e, calls, log)

\* try: <body> except Exception as e: logger.error(...); return {"error": str(e)}
ExceptException(name, args, e, calls, log) ==
    IF Catches("Exception", e)
    THEN Returned(name, args, [error |-> ExcStr(e)], calls,
                  Append(log, Log("error", name)))
    ELSE Raised(name, args, e, calls, log)

\* The calls a provider handler made: none when the client constructor raised.
ProviderCalls(p, op, target) ==
    IF p.at = "ctor" THEN <<>> ELSE <<ExtCall(op, target, p.exc = NoExc)>>

-----------------------------------------------------------------------------
(* Cluster handlers *)

cluster_toolkit(project_id, region, cluster_name, p) ==
    LET args == [project_id |-> project_id, region |-> region,
                 cluster_name |-> cluster_name]
        log == <<Log("info", "cluster_toolkit")>>
        parent == "projects/" \o project_id \o "/locations/" \o region
        calls == ProviderCalls(p, "create_cluster", parent)
        op == [name |-> "operation-create-" \o cluster_name]
    IN IF p.exc = NoExc
       THEN Returned("cluster_toolkit", args, [operation |-> op.name], calls, log)
       ELSE ExceptException("cluster_toolkit", args, p.exc, calls, log)

\* What the provider answers to list_clusters: the clusters of the location.
ClusterLists == { <<>>, <<[name |-> "A"]>>, <<[name |-> "A"], [name |-> "B"]>> }

list_clusters(p, clusters) ==
    LET args == [none |-> TRUE]
        project_id == get_project_id
        region == get_location
        log == <<Log("info", "list_clusters")>>
        parent == "projects/" \o Fmt(project_id) \o "/locations/" \o Fmt(region)
        calls == ProviderCalls(p, "list_clusters", parent)
        names == [i \in 1..Len(clusters) |-> clusters[i].name]
    IN IF p.exc = NoExc
       THEN Returned("list_clusters", args, [clusters |-> names], calls, log)
       ELSE ExceptException("list_clusters", args, p.exc, calls, log)

\* The cluster object the provider returns for a name.
ClusterObject(cluster_name) ==
    [name |-> cluster_name, status |-> [name |-> "RUNNING"],
     endpoint |-> "10.0.0.1",
     node_pools |-> <<[name |-> "default-pool"]>>,
     location |-> "us-central1"]

get_cluster(cluster_name, p) ==
    LET args == [cluster_name |-> cluster_name]
        project_id == get_project_id
        region == get_location
        log == <<Log("info", "get_cluster")>>
        name == "projects/" \o Fmt(project_id) \o "/locations/" \o Fmt(region)
                    \o "/clusters/" \o cluster_name
        calls == ProviderCalls(p, "get_cluster", name)
        cluster == ClusterObject(cluster_name)
    IN IF p.exc = NoExc
       THEN Returned("get_cluster", args,
                     [name |-> cluster.name,
                      status |-> cluster.status.name,
                      endpoint |-> cluster.endpoint,
                      node_pools |-> [i \in 1..Len(cluster.node_pools) |->
                                         cluster.node_pools[i].name],
                      location |-> cluster.location],
                     calls, log)
       ELSE ExceptException("get_cluster", args, p.exc, calls, log)

-----------------------------------------------------------------------------
(* Manifest generator *)

manifest(model_name, replicas) ==
    [apiVersion |-> "apps/v1",
     kind |-> "Deployment",
     metadata |-> [name |-> model_name \o "-inference"],
     spec |->
        [replicas |-> replicas,
         selector |-> [matchLabels |-> [app |-> model_name]],
         template |->
            [metadata |-> [labels |-> [app |-> model_name]],
             spec |->
                [containers |->
                    << [name |-> model_name,
                        image |-> "gcr.io/" \o Fmt(get_project_id) \o "/"
                                      \o model_name \o ":latest",
                        ports |-> <<[containerPort |-> ContainerPort]>>] >>]]]]

\* Variant: the replicas argument is dropped and the default used.
giq_generate_manifest_default_replicas(model_name, replicas) ==
    Returned("giq_generate_manifest",
             [model_name |-> model_name, replicas |-> replicas],
             manifest(model_name, DefaultReplicas), <<>>,
             <<Log("info", "giq_generate_manifest")>>)

giq_generate_manifest(model_name, replicas) ==
    Returned("giq_generate_manifest",
             [model_name |-> model_name, replicas |-> replicas],
             manifest(model_name, replicas), <<>>,
             <<Log("info", "giq_generate_manifest")>>)

-----------------------------------------------------------------------------
(* Recommendation and log handlers *)

RecommendationLists ==
    { <<>>, <<[description |-> "resize node pool"]>> }

list_recommendations(recommender_id, p, recs) ==
    LET args == [recommender_id |-> recommender_id]
        project_id == get_project_id
        location == get_location
        log == <<Log("info", "list_recommendations")>>
        parent == "projects/" \o Fmt(project_id) \o "/locations/" \o Fmt(location)
                      \o "/recommenders/" \o recommender_id
        calls == ProviderCalls(p, "list_recommendations", parent)
    IN IF p.exc = NoExc
       THEN Returned("list_recommendations", args,
                     [recommendations |-> [i \in 1..Len(recs) |-> recs[i].description]],
                     calls, log)
       ELSE ExceptException("list_recommendations", args, p.exc, calls, log)

\* The payload of the i-th entry the logging provider holds: text, a
\* structure, or none at all.
Payload(i) ==
    CASE i % 3 = 1 -> [kind |-> "text", text |-> "pod restarted"]
      [] i % 3 = 2 -> [kind |-> "json", text |-> "oom"]
      [] OTHER -> [kind |-> "none", text |-> ""]

\* str(e.payload)
StrPayload(pl) ==
    CASE pl.kind = "text" -> pl.text
      [] pl.kind = "json" -> "{'message': '" \o pl.text \o "'}"
      [] OTHER -> "None"

\* The pages the entry iterator of client.list_entries(page_size=...) fetches
\* when it is run to its end over n matching entries: it follows the next page
\* token for as long as the provider returns one.
RECURSIVE FetchPages(_, _, _)
FetchPages(n, page_size, from) ==
    LET hi == IF from + page_size < n THEN from + page_size ELSE n
        page == [i \in 1..(hi - from) |-> from + i]
    IN IF hi >= n THEN <<page>>
       ELSE <<page>> \o FetchPages(n, page_size, hi)

RECURSIVE Flatten(_)
Flatten(pages) ==
    IF pages = <<>> THEN <<>> ELSE Head(pages) \o Flatten(Tail(pages))

\* n: the entries the provider holds that match the query.
query_logs(query, limit, p, n) ==
    LET args == [query |-> query, limit |-> limit]
        project_id == get_project_id
        log == <<Log("info", "query_logs")>>
        pages == FetchPages(n, limit, 0)
        entries == Flatten(pages)
        logs == [i \in 1..Len(entries) |-> StrPayload(Payload(entries[i]))]
    IN IF p.exc = NoExc
       THEN Returned("query_logs", args, [logs |-> logs],
                     [k \in 1..Len(pages) |-> ExtCall("list_entries", query, TRUE)], log)
       ELSE ExceptException("query_logs", args, p.exc,
                            ProviderCalls(p, "list_entries", query), log)

schemas ==
    [k8s_event_logs |->
        [fields |-> <<"event_type", "reason", "message", "involved_object">>],
     k8s_audit_logs |->
        [fields |-> <<"method_name", "resource_name", "response_status">>],
     k8s_application_logs |->
        [fields |-> <<"severity", "message", "timestamp">>]]

\* Variant: the table lacks the application-log category.
get_log_schema_two_categories(log_type) ==
    Returned("get_log_schema", [log_type |-> log_type],
             IF log_type \in DOMAIN schemas \ {"k8s_application_logs"}
             THEN schemas[log_type]
             ELSE [error |-> "Unknown log type"],
             <<>>, <<Log("info", "get_log_schema")>>)

get_log_schema(log_type) ==
    LET args == [log_type |-> log_type]
        log == <<Log("info", "get_log_schema")>>
    IN Returned("get_log_schema", args,
                IF log_type \in DOMAIN schemas THEN schemas[log_type]
                ELSE [error |-> "Unknown log type"],
                <<>>, log)

-----------------------------------------------------------------------------
(* Kubernetes object handlers.  An invocation of list_namespaces or get_pods *)
(* is a frame that advances one statement at a time; `w` is the frame with  *)
(* the two pieces of process-wide state its statements read and write.      *)

K8sTools == {"list_namespaces", "get_pods"}

\* gcloud: how the bootstrap command of this invocation ended;
\* helperExc: what get_k8s_client raised to the handler, if it raised.
IdleFrame ==
    [name |-> "", args |-> [cluster_name |-> "", namespace |-> ""],
     handler |-> "none", pc |-> "idle", client |-> "none", kind |-> "none",
     gcloud |-> "not-run", helperExc |-> NoExc,
     ret |-> [none |-> TRUE], exc |-> NoExc, calls |-> <<>>, log |-> <<>>]

\* Entering the handler: get_k8s_client(cluster_name) is its first statement.
EnterFrame(name, cluster_name, namespace) ==
    [IdleFrame EXCEPT !.name = name, !.handler = name, !.pc = "gcloud",
                      !.args = [cluster_name |-> cluster_name,
                                namespace |-> namespace]]

\* The handler's own `except Exception as e` around get_k8s_client and the
\* list call.
HandlerExcept(f, e) ==
    LET r == ExceptException(f.name, f.args, e, f.calls, f.log)
    IN [f EXCEPT !.pc = "done", !.kind = r.kind, !.ret = r.ret,
                 !.exc = r.exc, !.log = r.log]

\* How the credential-bootstrap command can end.
GcloudOutcomes ==
    { [exit |-> 0, stderr |-> "utf8"],
      [exit |-> 1, stderr |-> "utf8"],
      [exit |-> 1, stderr |-> "not-utf8"],
      [exit |-> 127, stderr |-> "utf8"] }     \* no gcloud executable

\* e.stderr.decode(): strict UTF-8
DecodeRaises(stderr) == stderr # "utf8"

\* Variant: subprocess.run without check=True, so a non-zero exit raises
\* nothing and get_k8s_client goes on to load the kubeconfig file.
StepGcloud_unchecked(w, g) ==
    LET f == w.f
        cluster_name == f.args.cluster_name
        log1 == Append(f.log, Log("info", "get_k8s_client"))
    IN [w EXCEPT !.f = [f EXCEPT !.pc = "load", !.log = log1,
                                 !.calls = Append(@, ExtCall("gcloud", cluster_name,
                                                             g.exit = 0)),
                                 !.gcloud = IF g.exit = 0 THEN "exit-zero"
                                            ELSE "exit-nonzero"],
                 !.kc = IF g.exit = 0 THEN cluster_name ELSE w.kc]

\* get_k8s_client up to and including subprocess.run and its except clause.
StepGcloud(w, g) ==
    LET f == w.f
        cluster_name == f.args.cluster_name
        project_id == get_project_id
        region == get_location
        log1 == Append(f.log, Log("info", "get_k8s_client"))
        attempt(ok) == Append(f.calls, ExtCall("gcloud", cluster_name, ok))
        \* get_k8s_client raises e to the handler, whose except clause takes it
        raises(e, ended, log) ==
            [w EXCEPT !.f = HandlerExcept(
                [f EXCEPT !.log = log, !.calls = attempt(FALSE),
                          !.gcloud = ended, !.helperExc = e], e)]
    IN IF project_id = PyNone \/ region = PyNone
       THEN \* the argument list holds None: subprocess.run raises TypeError
            raises(Raise("TypeError",
                         <<"expected str, bytes or os.PathLike object, not NoneType">>),
                   "not-run", log1)
       ELSE IF g.exit = 127
       THEN raises(Raise("FileNotFoundError",
                         <<"[Errno 2] No such file or directory: 'gcloud'">>),
                   "not-run", log1)
       ELSE IF g.exit = 0
       THEN [w EXCEPT !.f = [f EXCEPT !.pc = "load", !.log = log1,
                                      !.calls = attempt(TRUE),
                                      !.gcloud = "exit-zero"],
                      !.kc = cluster_name]
       ELSE LET e == Raise("CalledProcessError", <<g.stderr>>)
            IN IF ~Catches("CalledProcessError", e)
               THEN raises(e, "exit-nonzero", log1)
               ELSE IF DecodeRaises(e.args[1])
               THEN \* the message of logger.error cannot be built
                    raises(Raise("UnicodeDecodeError", <<"utf-8">>),
                           "exit-nonzero", log1)
               ELSE raises(e, "exit-nonzero",
                           Append(log1, Log("error", "get_k8s_client")))

LoadOutcomes == {"ok", "error"}

\* k8s_config.load_kube_config(): reads the kubeconfig file's current context
\* into the client library's default configuration.
StepLoad(w, l) ==
    LET f == w.f
        e == Raise("ConfigException", <<"Invalid kube-config file">>)
    IN IF l = "error" \/ w.kc = "none"
       THEN [w EXCEPT !.f = HandlerExcept(
                [f EXCEPT !.calls = Append(@, ExtCall("load_kube_config", w.kc, FALSE)),
                          !.helperExc = e], e)]
       ELSE [w EXCEPT !.f = [f EXCEPT !.pc = "client",
                                      !.calls = Append(@, ExtCall("load_kube_config",
                                                                  w.kc, TRUE))],
                      !.dc = w.kc]

\* k8s_client.CoreV1Api(): a client on a copy of the default configuration.
StepClient(w) ==
    [w EXCEPT !.f = [w.f EXCEPT !.pc = "list", !.client = w.dc]]

\* What a cluster answers.
NamespacesOf(cluster) ==
    << [metadata |-> [name |-> "default"]],
       [metadata |-> [name |-> "ns-" \o cluster]] >>

PodsOf(cluster, namespace) ==
    << [metadata |-> [name |-> "pod-" \o cluster \o "-" \o namespace]] >>

ListOutcomes ==
    { [exc |-> NoExc] } \cup
    { [exc |-> e] : e \in { Raise("ApiException", <<"(403) Reason: Forbidden">>),
                            Raise("Exception", <<>>) } }

\* v1.list_namespace() / v1.list_namespaced_pod(namespace=namespace), and the
\* handler's return.
StepList(w, k) ==
    LET f == w.f
        op == IF f.name = "list_namespaces" THEN "list_namespace"
              ELSE "list_namespaced_pod"
        calls == Append(f.calls, ExtCall(op, f.client, k.exc = NoExc))
        items == IF f.name = "list_namespaces" THEN NamespacesOf(f.client)
                 ELSE PodsOf(f.client, f.args.namespace)
        names == [i \in 1..Len(items) |-> items[i].metadata.name]
    IN IF k.exc # NoExc
       THEN [w EXCEPT !.f = HandlerExcept([f EXCEPT !.calls = calls], k.exc)]
       ELSE [w EXCEPT !.f = [f EXCEPT !.pc = "done", !.kind = "return",
                                      !.calls = calls,
                                      !.ret = IF f.name = "list_namespaces"
                                              THEN [namespaces |-> names]
                                              ELSE [pods |-> names]]]

\* The next statement of a frame.
Step(w, g, l, k) ==
    CASE w.f.pc = "gcloud" -> StepGcloud(w, g)
      [] w.f.pc = "load" -> StepLoad(w, l)
      [] w.f.pc = "client" -> StepClient(w)
      [] w.f.pc = "list" -> StepList(w, k)
      [] OTHER -> w

\* A handler run from its first statement to its return.
RunHandler(name, cluster_name, namespace, g, l, k) ==
    LET w0 == [f |-> EnterFrame(name, cluster_name, namespace),
               kc |-> kubeconfig, dc |-> defaultConfig]
    IN Step(Step(Step(Step(w0, g, l, k), g, l, k), g, l, k), g, l, k)

list_namespaces(cluster_name, g, l, k) ==
    RunHandler("list_namespaces", cluster_name, "", g, l, k)

get_pods(cluster_name, namespace, g, l, k) ==
    RunHandler("get_pods", cluster_name, namespace, g, l, k)

-----------------------------------------------------------------------------
(* The registry and the dispatcher *)

\* Variant: get_pods lacks its @mcp.tool() decorator.
mcp_get_pods_undecorated ==
    {"cluster_toolkit", "list_clusters", "get_cluster", "giq_generate_manifest",
     "list_recommendations", "query_logs", "get_log_schema", "list_namespaces"}

\* The functions decorated with @mcp.tool() when the module is loaded.
mcp ==
    {"cluster_toolkit", "list_clusters", "get_cluster", "giq_generate_manifest",
     "list_recommendations", "query_logs", "get_log_schema",
     "list_namespaces", "get_pods"}

\* Tool names a request can carry.
RequestNames ==
    {"cluster_toolkit", "list_clusters", "get_cluster", "giq_generate_manifest",
     "list_recommendations", "query_logs", "get_log_schema",
     "list_namespaces", "get_pods",
     "delete_cluster", "get_access_token", "get_k8s_client", ""}

UnknownToolCall(name) ==
    [NoCall EXCEPT !.name = name, !.kind = "unknown_tool"]

\* The dispatcher finds no handler under the requested name.
UnknownTool ==
    /\ \E name \in RequestNames :
          /\ name \notin registry
          /\ last' = UnknownToolCall(name)
    /\ UNCHANGED <<registry, env, kubeconfig, defaultConfig, inv>>
    /\ UNCHANGED loopVars

\* What a handler that touches neither the kubeconfig file nor the client
\* default leaves alone.
Untouched ==
    /\ UNCHANGED <<registry, env, kubeconfig, defaultConfig, inv>>
    /\ UNCHANGED loopVars

Invoke_cluster_toolkit ==
    /\ "cluster_toolkit" \in registry
    /\ \E c \in Clusters, p \in ProviderOutcomes :
          last' = cluster_toolkit("my-project", "us-central1", c, p)
    /\ Untouched

Invoke_list_clusters ==
    /\ "list_clusters" \in registry
    /\ \E p \in ProviderOutcomes, cs \in ClusterLists :
          last' = list_clusters(p, cs)
    /\ Untouched

Invoke_get_cluster ==
    /\ "get_cluster" \in registry
    /\ \E c \in Clusters, p \in ProviderOutcomes :
          last' = get_cluster(c, p)
    /\ Untouched

Invoke_giq_generate_manifest ==
    /\ "giq_generate_manifest" \in registry
    /\ \E m \in ModelNames, r \in (0..MaxReplicas) \cup {DefaultReplicas} :
          last' = giq_generate_manifest(m, r)
    /\ Untouched

Invoke_list_recommendations ==
    /\ "list_recommendations" \in registry
    /\ \E r \in Recommenders, p \in ProviderOutcomes, recs \in RecommendationLists :
          last' = list_recommendations(r, p, recs)
    /\ Untouched

Invoke_query_logs ==
    /\ "query_logs" \in registry
    /\ \E q \in Queries, limit \in (1..MaxLimit) \cup {DefaultLimit},
          p \in ProviderOutcomes, n \in 0..MaxEntries :
          last' = query_logs(q, limit, p, n)
    /\ Untouched

Invoke_get_log_schema ==
    /\ "get_log_schema" \in registry
    /\ \E t \in LogTypes :
          last' = get_log_schema(t)
    /\ Untouched

\* A Kubernetes handler run to its end leaves the kubeconfig file and the
\* client default as its statements wrote them.
Invoke_list_namespaces ==
    /\ "list_namespaces" \in registry
    /\ \E c \in Clusters, g \in GcloudOutcomes, l \in LoadOutcomes, k \in ListOutcomes :
          LET w == list_namespaces(c, g, l, k)
          IN /\ last' = w.f
             /\ kubeconfig' = w.kc
             /\ defaultConfig' = w.dc
    /\ UNCHANGED <<registry, env, inv>>
    /\ UNCHANGED loopVars

Invoke_get_pods ==
    /\ "get_pods" \in registry
    /\ \E c \in Clusters, ns \in Namespaces,
          g \in GcloudOutcomes, l \in LoadOutcomes, k \in ListOutcomes :
          LET w == get_pods(c, ns, g, l, k)
          IN /\ last' = w.f
             /\ kubeconfig' = w.kc
             /\ defaultConfig' = w.dc
    /\ UNCHANGED <<registry, env, inv>>
    /\ UNCHANGED loopVars

-----------------------------------------------------------------------------
(* Kubernetes handlers in flight together *)

Slots == 1..MaxInv

\* A request for list_namespaces or get_pods enters its handler.
Begin(i) ==
    /\ inv[i].pc = "idle"
    /\ \E name \in K8sTools, c \in Clusters :
          /\ name \in registry
          /\ inv' = [inv EXCEPT ![i] =
                        EnterFrame(name, c,
                                   IF name = "get_pods" THEN "default" ELSE "")]
    /\ UNCHANGED <<registry, env, kubeconfig, defaultConfig, last>>
    /\ UNCHANGED loopVars

\* The invocation in slot i executes its next statement, which takes the
\* frame and the process-wide state from w0 to w1.
Advance(i, w1) ==
    /\ inv' = [inv EXCEPT ![i] = w1.f]
    /\ kubeconfig' = w1.kc
    /\ defaultConfig' = w1.dc
    /\ UNCHANGED <<registry, env, last>>
    /\ UNCHANGED loopVars

World(i) == [f |-> inv[i], kc |-> kubeconfig, dc |-> defaultConfig]

RunGcloud(i) ==
    /\ inv[i].pc = "gcloud"
    /\ \E g \in GcloudOutcomes : Advance(i, StepGcloud(World(i), g))

LoadKubeConfig(i) ==
    /\ inv[i].pc = "load"
    /\ \E l \in LoadOutcomes : Advance(i, StepLoad(World(i), l))

NewClient(i) ==
    /\ inv[i].pc = "client"
    /\ Advance(i, StepClient(World(i)))

ListCall(i) ==
    /\ inv[i].pc = "list"
    /\ \E k \in ListOutcomes : Advance(i, StepList(World(i), k))

\* The result has been sent; the slot takes the next request.
Finish(i) ==
    /\ inv[i].pc = "done"
    /\ inv' = [inv EXCEPT ![i] = IdleFrame]
    /\ UNCHANGED <<registry, env, kubeconfig, defaultConfig, last>>
    /\ UNCHANGED loopVars

-----------------------------------------------------------------------------
(* main(), the event loop and shutdown(loop) *)

Tasks == 1..MaxTasks

\* The task run_until_complete wraps mcp.run_async(...) in.
ServerTask == 1

Done == {"cancelled", "finished", "failed"}

\* main() up to loop.run_until_complete(...): the loop exists, both signal
\* handlers are installed and the server coroutine is scheduled.
main_run ==
    /\ mainpc = "start"
    /\ mainpc' = "running"
    /\ task' = [task EXCEPT ![ServerTask] = "pending"]
    /\ UNCHANGED <<cancelReq, loopClosed, signals>>
    /\ UNCHANGED toolVars

\* The server schedules a task for a request.
CreateTask(t) ==
    /\ mainpc = "running"
    /\ t # ServerTask
    /\ task[t] = "none"
    /\ task[ServerTask] = "pending"
    /\ task' = [task EXCEPT ![t] = "pending"]
    /\ UNCHANGED <<cancelReq, mainpc, loopClosed, signals>>
    /\ UNCHANGED toolVars

\* A task runs to its end without being cancelled.
TaskEnds(t) ==
    /\ mainpc = "running"
    /\ task[t] = "pending"
    /\ \E r \in {"finished", "failed"} : task' = [task EXCEPT ![t] = r]
    /\ UNCHANGED <<cancelReq, mainpc, loopClosed, signals>>
    /\ UNCHANGED toolVars

\* shutdown(loop): cancel() on every task that is not done.
shutdown ==
    LET tasks == { t \in Tasks : task[t] \in {"pending", "cancelling", "cleanup"} }
    IN /\ task' = [t \in Tasks |-> IF t \in tasks THEN "cancelling" ELSE task[t]]
       /\ cancelReq' = cancelReq \cup tasks

\* SIGTERM or SIGINT arrives while the loop runs; the loop calls the handler
\* main() installed.
Signal ==
    /\ mainpc = "running"
    /\ signals < MaxSignals
    /\ signals' = signals + 1
    /\ shutdown
    /\ UNCHANGED <<mainpc, loopClosed>>
    /\ UNCHANGED toolVars

\* The loop throws CancelledError into a task cancel() was called on.  The
\* coroutine lets it through, catches it and goes on awaiting (a finally or
\* except block that awaits), returns, or raises something else.
DeliverCancel(t) ==
    /\ mainpc = "running"
    /\ task[t] = "cancelling"
    /\ \E r \in {"cancelled", "cleanup", "finished", "failed"} :
          task' = [task EXCEPT ![t] = r]
    /\ UNCHANGED <<cancelReq, mainpc, loopClosed, signals>>
    /\ UNCHANGED toolVars

\* A task that caught CancelledError ends its clean-up.
CleanupEnds(t) ==
    /\ mainpc = "running"
    /\ task[t] = "cleanup"
    /\ \E r \in {"cancelled", "finished"} : task' = [task EXCEPT ![t] = r]
    /\ UNCHANGED <<cancelReq, mainpc, loopClosed, signals>>
    /\ UNCHANGED toolVars

\* run_until_complete returns or raises once the server task is done and the
\* loop has run the iteration that delivers the pending cancellations; main()
\* catches CancelledError, and closes the loop in its finally block.
main_exit ==
    /\ mainpc = "running"
    /\ task[ServerTask] \in Done
    /\ \A t \in Tasks : task[t] # "cancelling"
    /\ mainpc' = IF task[ServerTask] = "failed" THEN "raised" ELSE "returned"
    /\ loopClosed' = TRUE
    /\ UNCHANGED <<task, cancelReq, signals>>
    /\ UNCHANGED toolVars

-----------------------------------------------------------------------------
(* Specifications *)

Init ==
    /\ registry = mcp
    /\ env \in Environments
    /\ kubeconfig \in Clusters \cup {"none"}
    /\ defaultConfig = "none"
    /\ last = NoCall
    /\ inv = [i \in Slots |-> IdleFrame]
    /\ task = [t \in Tasks |-> "none"]
    /\ cancelReq = {}
    /\ mainpc = "start"
    /\ loopClosed = FALSE
    /\ signals = 0

Next ==
    \/ UnknownTool
    \/ Invoke_cluster_toolkit
    \/ Invoke_list_clusters
    \/ Invoke_get_cluster
    \/ Invoke_giq_generate_manifest
    \/ Invoke_list_recommendations
    \/ Invoke_query_logs
    \/ Invoke_get_log_schema
    \/ Invoke_list_namespaces
    \/ Invoke_get_pods

Spec == Init /\ [][Next]_vars

ConcNext ==
    \E i \in Slots :
        \/ Begin(i)
        \/ RunGcloud(i)
        \/ LoadKubeConfig(i)
        \/ NewClient(i)
        \/ ListCall(i)
        \/ Finish(i)

ConcSpec == Init /\ [][ConcNext]_vars

LoopNext ==
    \/ main_run
    \/ Signal
    \/ main_exit
    \/ \E t \in Tasks : CreateTask(t) \/ TaskEnds(t) \/ DeliverCancel(t) \/ CleanupEnds(t)

LoopSpec == Init /\ [][LoopNext]_vars

-----------------------------------------------------------------------------
(* Properties *)

\* The nine tools and the keys of each one's success payload, as documented.
DocumentedTools ==
    {"cluster_toolkit", "list_clusters", "get_cluster", "giq_generate_manifest",
     "list_recommendations", "query_logs", "get_log_schema",
     "list_namespaces", "get_pods"}

SuccessKeys(name) ==
    CASE name = "cluster_toolkit" -> {"operation"}
      [] name = "list_clusters" -> {"clusters"}
      [] name = "get_cluster" -> {"name", "status", "endpoint", "node_pools", "location"}
      [] name = "giq_generate_manifest" -> {"apiVersion", "kind", "metadata", "spec"}
      [] name = "list_recommendations" -> {"recommendations"}
      [] name = "query_logs" -> {"logs"}
      [] name = "get_log_schema" -> {"fields"}
      [] name = "list_namespaces" -> {"namespaces"}
      [] name = "get_pods" -> {"pods"}
      [] OTHER -> {}

IsErrorEnvelope(r) == DOMAIN r = {"error"}

IsSuccessPayload(name, r) == "error" \notin DOMAIN r /\ DOMAIN r = SuccessKeys(name)

ProviderTools ==
    {"cluster_toolkit", "list_clusters", "get_cluster", "list_recommendations",
     "query_logs", "list_namespaces", "get_pods"}

ListOps == {"list_namespace", "list_namespaced_pod"}

SomeCallFailed(c) == \E j \in 1..Len(c.calls) : ~c.calls[j].ok

\* C1: every invocation of a registered handler ends by returning, never by
\* raising, and what it returns is either the handler's success payload or a
\* mapping {error: message}, never both.
C1_ReturnsPayloadOrError ==
    last.handler # "none" =>
        /\ last.handler \in DocumentedTools
        /\ last.kind = "return"
        /\ last.exc = NoExc
        /\ IsErrorEnvelope(last.ret) # IsSuccessPayload(last.name, last.ret)

\* C1 witness: get_cluster whose provider call raised an exception that is
\* not the provider's own error class, and which returned the error mapping.
C1_Witness ==
    /\ last.handler = "get_cluster"
    /\ Len(last.calls) = 1
    /\ ~last.calls[1].ok
    /\ last.kind = "return"
    /\ last.ret = [error |-> ""]

\* C2: once a termination signal has been handled, the server task has ended
\* cancelled and main() has left run_until_complete, every task that
\* shutdown(loop) cancelled is in the cancelled state and the loop is closed.
C2_AllTasksCancelledOnExit ==
    (signals > 0 /\ task[ServerTask] = "cancelled" /\ mainpc = "returned") =>
        /\ \A t \in cancelReq : task[t] = "cancelled"
        /\ loopClosed

\* C3: a provider handler whose provider call raised returns a mapping whose
\* only key is "error" and whose value is a non-empty string.
C3_ErrorIsNonEmptyString ==
    (last.handler \in ProviderTools /\ SomeCallFailed(last)) =>
        /\ last.kind = "return"
        /\ IsErrorEnvelope(last.ret)
        /\ last.ret.error # ""

\* C4: when the bootstrap command exits non-zero, get_k8s_client logs the
\* failure at error severity and re-raises it, and the calling handler
\* returns the error mapping.
C4_BootstrapFailureLoggedAndReraised ==
    (last.handler \in K8sTools /\ last.gcloud = "exit-nonzero") =>
        /\ \E j \in 1..Len(last.log) : last.log[j] = Log("error", "get_k8s_client")
        /\ last.helperExc.type = "CalledProcessError"
        /\ last.kind = "return"
        /\ IsErrorEnvelope(last.ret)

\* C5: a successful query_logs returns at most `limit` logs and fetches no
\* more than one page from the provider.
C5_AtMostLimitLogs ==
    (last.handler = "query_logs" /\ last.kind = "return"
        /\ "logs" \in DOMAIN last.ret) =>
        /\ Len(last.ret.logs) <= last.args.limit
        /\ Len(last.calls) <= 1

\* C6: a request naming none of the nine registered tools gets the unknown
\* tool indication, with no handler invoked and no external call made; a
\* request naming one of them reaches its handler; and the registry stays the
\* nine tools registered at start.
C6_UnknownToolNoHandler ==
    /\ registry = DocumentedTools
    /\ last.kind # "none" =>
          /\ (last.name \notin DocumentedTools) <=> (last.kind = "unknown_tool")
          /\ last.kind = "unknown_tool" =>
                (last.handler = "none" /\ last.calls = <<>> /\ last.log = <<>>)
          /\ last.kind # "unknown_tool" => last.handler = last.name

\* C6 witness: a request for a tool that was never registered.
C6_Witness ==
    /\ last.name = "delete_cluster"
    /\ last.kind = "unknown_tool"
    /\ last.handler = "none"

\* C7: whenever a list_namespaces / get_pods invocation issues its Kubernetes
\* list call, the call goes to the cluster named in that invocation's
\* cluster_name, whatever other invocations do meanwhile.
C7_TalksToOwnCluster ==
    \A i \in Slots :
        \A j \in 1..Len(inv[i].calls) :
            inv[i].calls[j].op \in ListOps =>
                inv[i].calls[j].target = inv[i].args.cluster_name

\* The schema documented for each log category.
ExpectedSchema(log_type) ==
    CASE log_type = "k8s_event_logs" ->
            [fields |-> <<"event_type", "reason", "message", "involved_object">>]
      [] log_type = "k8s_audit_logs" ->
            [fields |-> <<"method_name", "resource_name", "response_status">>]
      [] log_type = "k8s_application_logs" ->
            [fields |-> <<"severity", "message", "timestamp">>]
      [] OTHER -> [error |-> "Unknown log type"]

\* C8: get_log_schema returns a value fixed by log_type alone (the category's
\* schema for the three known categories, {error: "Unknown log type"} for any
\* other), whatever was called before, and makes no external call.
C8_LogSchemaIsPureLookup ==
    last.handler = "get_log_schema" =>
        /\ last.kind = "return"
        /\ last.ret = ExpectedSchema(last.args.log_type)
        /\ last.calls = <<>>

\* C8 witness: both outcomes happen, each after the kubeconfig file was
\* rewritten by an earlier Kubernetes call.
C8_Witness ==
    /\ last.handler = "get_log_schema"
    /\ last.args.log_type = "k8s_application_logs"
    /\ last.ret = [fields |-> <<"severity", "message", "timestamp">>]
    /\ defaultConfig # "none"

\* C9: giq_generate_manifest returns a Deployment named model_name-inference
\* with the requested replicas and exactly one container, named model_name,
\* exposing container port 8080; it makes no external call and has no error
\* outcome.
C9_ManifestShape ==
    last.handler = "giq_generate_manifest" =>
        LET m == last.ret
            cs == m.spec.template.spec.containers
        IN /\ last.kind = "return"
           /\ "error" \notin DOMAIN m
           /\ m.kind = "Deployment"
           /\ m.metadata.name = last.args.model_name \o "-inference"
           /\ m.spec.replicas = last.args.replicas
           /\ Len(cs) = 1
           /\ cs[1].name = last.args.model_name
           /\ cs[1].ports = <<[containerPort |-> 8080]>>
           /\ last.calls = <<>>

\* C9 witness: giq_generate_manifest("resnet50", replicas=3).
C9_Witness ==
    /\ last.handler = "giq_generate_manifest"
    /\ last.args = [model_name |-> "resnet50", replicas |-> 3]
    /\ last.ret.metadata.name = "resnet50-inference"
    /\ last.ret.spec.replicas = 3
    /\ last.ret.spec.template.spec.containers[1].name = "resnet50"

\* C10: in every list_namespaces / get_pods invocation the bootstrap command
\* is run once, for the invocation's own cluster_name, before the credential
\* file is loaded, and the Kubernetes list call is issued only after both
\* succeeded in that order.
C10_BootstrapThenLoadThenList ==
    \A i \in Slots :
        LET f == inv[i]
            c == f.calls
        IN /\ Cardinality({ j \in 1..Len(c) : c[j].op = "gcloud" })
                = (IF f.pc \in {"idle", "gcloud"} THEN 0 ELSE 1)
           /\ \A j \in 1..Len(c) :
                 /\ c[j].op = "gcloud" =>
                       (j = 1 /\ c[j].target = f.args.cluster_name)
                 /\ c[j].op = "load_kube_config" =>
                       (j = 2 /\ c[1].op = "gcloud" /\ c[1].ok)
                 /\ c[j].op \in ListOps =>
                       /\ j = 3
                       /\ c[1] = ExtCall("gcloud", f.args.cluster_name, TRUE)
                       /\ c[2].op = "load_kube_config"
                       /\ c[2].ok

\* C10 witness: an invocation that ran all three steps and returned names,
\* while another invocation was past its own bootstrap.
C10_Witness ==
    \E i, k \in Slots :
        /\ i # k
        /\ inv[i].pc = "done"
        /\ inv[i].kind = "return"
        /\ Len(inv[i].calls) = 3
        /\ inv[i].calls[3].ok
        /\ inv[k].pc \in {"load", "client", "list"}

====
